---- MODULE Spec2Model ----
(***************************************************************************)
(* A model of the crawler package: crawler/utils.py, crawler/state.py,     *)
(* crawler/crawl.py (discover) and crawler/download.py (download).         *)
(*                                                                         *)
(* Python str values are modelled as sequences of tokens (a token is a     *)
(* delimiter character or a run of ordinary characters), so that parsing,  *)
(* normalisation, stripping and line splitting are computed, not assumed.  *)
(* Python None is the one-token sequence NoneV, whose token is not part of *)
(* any modelled text.                                                      *)
(***************************************************************************)
EXTENDS Integers, Sequences, FiniteSets, TLC

(***************************************************************************)
(* str helpers                                                             *)
(***************************************************************************)
NoneV == <<"<None>">>

EmptyStr == <<>>

\* F applied to the value of v, which is worked out once
Bound(F(_), v) == CHOOSE r \in {F(x) : x \in {v}} : TRUE

\* Python truthiness of an Optional[str]: None and "" are falsy.
Truthy(v) == v # NoneV /\ v # EmptyStr

\* characters str.strip() removes, and the ones str.splitlines() cuts at
Whitespace == {" ", "\n", "\f"}

LineBreaks == {"\n", "\f"}

\* positions of the tokens of s that belong to T
Positions(s, T) == {i \in 1..Len(s) : s[i] \in T}

Min(S) == CHOOSE x \in S : \A y \in S : x <= y

Max(S) == CHOOSE x \in S : \A y \in S : x >= y

\* s.find(any of T): the first position, or Len(s)+1 when there is none
FirstOf(P, none) == IF P = {} THEN none ELSE Min(P)

Find(s, T) == FirstOf(Positions(s, T), Len(s) + 1)

Drop(s, n) == SubSeq(s, n + 1, Len(s))

Take(s, n) == SubSeq(s, 1, n)

\* str.lstrip(), str.rstrip(), str.strip()
KeepFrom(s, keep) == IF keep = {} THEN <<>> ELSE SubSeq(s, Min(keep), Len(s))

KeepUpTo(s, keep) == IF keep = {} THEN <<>> ELSE SubSeq(s, 1, Max(keep))

LStrip(s) == KeepFrom(s, {i \in 1..Len(s) : s[i] \notin Whitespace})

RStrip(s) == KeepUpTo(s, {i \in 1..Len(s) : s[i] \notin Whitespace})

Strip(s) == LStrip(RStrip(s))

\* str.lstrip("/")
LStripSlash(s) == KeepFrom(s, {i \in 1..Len(s) : s[i] # "/"})

\* str.lower(), token by token
LowerTok(t) ==
    CASE t = ".PDF" -> ".pdf"
      [] t = "A.COM" -> "a.com"
      [] OTHER -> t

Lower(s) == [i \in 1..Len(s) |-> LowerTok(s[i])]

\* str.endswith(suffix)
EndsWith(s, suffix) ==
    /\ Len(suffix) <= Len(s)
    /\ SubSeq(s, Len(s) - Len(suffix) + 1, Len(s)) = suffix

StartsWithSlashSlash(s) == Len(s) >= 2 /\ s[1] = "/" /\ s[2] = "/"

(***************************************************************************)
(* urllib.parse as crawler/utils.py uses it                                *)
(***************************************************************************)
Schemes == {"https", "http"}

HasScheme(u) == Len(u) >= 2 /\ u[1] \in Schemes /\ u[2] = ":"

SchemeOf(u) == IF HasScheme(u) THEN <<LowerTok(u[1])>> ELSE <<>>

AfterScheme(u) == IF HasScheme(u) THEN Drop(u, 2) ELSE u

\* the netloc runs from "//" to the next "/", "?" or "#"
NetlocOf(u) ==
    IF StartsWithSlashSlash(u)
    THEN SubSeq(u, 3, Find(Drop(u, 2), {"/", "?", "#"}) + 1)
    ELSE <<>>

AfterNetloc(u) ==
    IF StartsWithSlashSlash(u)
    THEN Drop(u, Find(Drop(u, 2), {"/", "?", "#"}) + 1)
    ELSE u

\* s.partition(t): the text before the first t, and the text after it
BeforeTok(s, t) == Take(s, Find(s, {t}) - 1)

AfterTok(s, t) == Drop(s, Find(s, {t}))

\* urlsplit raises ValueError on a netloc with an unbalanced bracket
NetlocOk(netloc) == (Positions(netloc, {"["}) = {}) = (Positions(netloc, {"]"}) = {})

ParseRest(scheme, netloc, u) ==
    [ok |-> NetlocOk(netloc), scheme |-> scheme, netloc |-> netloc,
     path |-> BeforeTok(BeforeTok(u, "#"), "?"),
     query |-> AfterTok(BeforeTok(u, "#"), "?"),
     fragment |-> AfterTok(u, "#")]

ParseNetloc(scheme, u) == ParseRest(scheme, NetlocOf(u), AfterNetloc(u))

ParseScheme(u) == Bound(LAMBDA rest : ParseNetloc(SchemeOf(u), rest), AfterScheme(u))

\* urlparse(url): scheme, netloc, path, query, fragment (params are never
\* present here); ok = FALSE stands for the ValueError urlsplit raises
urlparse(url) == Bound(ParseScheme, LStrip(url))

\* urlunparse((scheme, netloc, path, "", query, fragment))
WithNetloc(scheme, netloc, path) ==
    IF netloc # <<>> \/ (scheme # <<>> /\ ~StartsWithSlashSlash(path))
    THEN <<"/", "/">> \o netloc
         \o (IF path # <<>> /\ path[1] # "/" THEN <<"/">> ELSE <<>>) \o path
    ELSE path

urlunparse(scheme, netloc, path, query, fragment) ==
    (IF scheme # <<>> THEN scheme \o <<":">> ELSE <<>>)
    \o WithNetloc(scheme, netloc, path)
    \o (IF query # <<>> THEN <<"?">> \o query ELSE <<>>)
    \o (IF fragment # <<>> THEN <<"#">> \o fragment ELSE <<>>)

\* urlparse(url).hostname: the netloc in lower case ("" here for none)
hostname(url) == Lower(urlparse(url).netloc)

\* utils.normalize_url raises exactly when urlparse does
normalize_raises(url) == ~urlparse(url).ok

NormalizeParsed(parsed, ignore_query) ==
    urlunparse(parsed.scheme, parsed.netloc,
               IF parsed.path = <<>> THEN <<"/">> ELSE parsed.path,
               IF ignore_query THEN <<>> ELSE parsed.query, <<>>)

normalize_url(url, ignore_query) ==
    Bound(LAMBDA parsed : NormalizeParsed(parsed, ignore_query), urlparse(url))

HostInDomain(host, allowed_domain, follow_subdomains) ==
    IF follow_subdomains THEN EndsWith(host, allowed_domain)
    ELSE host = allowed_domain

is_within_domain(url, allowed_domain, follow_subdomains) ==
    HostInDomain(hostname(url), allowed_domain, follow_subdomains)

\* utils.file_url_to_path: Path(parsed.path.lstrip("/"))
file_url_to_path(url) == LStripSlash(urlparse(url).path)

(***************************************************************************)
(* crawler/state.py: CrawlState                                            *)
(***************************************************************************)
\* str.splitlines(): cut at every line break; no empty last line
RECURSIVE SplitLines(_)
SplitLines(s) ==
    IF s = <<>> THEN <<>>
    ELSE Bound(LAMBDA p : <<Take(s, p - 1)>> \o Bound(SplitLines, Drop(s, p)),
               Find(s, LineBreaks))

\* the order sorted() puts str values in: by code point, token by token
TokOrder == <<"\n", "\f", " ", "#", ".", "..", ".PDF", ".pdf", ".txt", "/", ":", "?",
              "A.COM", "[", "a.com", "b", "bad", "c", "cdn.net", "data", "evil",
              "f", "g", "http", "https", "not", "p", "private", "state", "sub", "sub.",
              "top", "up", "v", "v=1", "visited_urls", "x", "z1">>

TokRank(t) == Min({i \in 1..Len(TokOrder) : TokOrder[i] = t})

RECURSIVE StrLess(_, _)
StrLess(a, b) ==
    IF a = <<>> THEN b # <<>>
    ELSE IF b = <<>> THEN FALSE
    ELSE IF a[1] = b[1] THEN StrLess(Tail(a), Tail(b))
    ELSE TokRank(a[1]) < TokRank(b[1])

RECURSIVE Sorted(_)
Sorted(S) ==
    IF S = {} THEN <<>>
    ELSE LET m == CHOOSE x \in S : \A y \in S \ {x} : StrLess(x, y)
         IN  <<m>> \o Sorted(S \ {m})

RECURSIVE Concat(_)
Concat(ss) == IF ss = <<>> THEN <<>> ELSE Head(ss) \o Concat(Tail(ss))

\* the manifest dict: insertion-ordered pairs of key and entry
ManifestKeys(m) == {m[i].key : i \in 1..Len(m)}

ManifestHas(m, k) == k \in ManifestKeys(m)

ManifestIndex(m, k) == CHOOSE i \in 1..Len(m) : m[i].key = k

ManifestGet(m, k) == m[ManifestIndex(m, k)].entry

\* m[k] = e: an existing key keeps its place, a new key goes last
ManifestSet(m, k, e) ==
    IF ManifestHas(m, k)
    THEN [m EXCEPT ![ManifestIndex(m, k)] = [key |-> k, entry |-> e]]
    ELSE Append(m, [key |-> k, entry |-> e])

NoDisk == [visited_exists |-> FALSE, visited_text |-> <<>>,
           manifest_exists |-> FALSE, manifest_lines |-> <<>>]

\* CrawlState._load, the visited file
LoadVisited(d) ==
    IF d.visited_exists
    THEN Bound(LAMBDA lines : {Strip(lines[i]) :
                                  i \in {j \in 1..Len(lines) : Strip(lines[j]) # <<>>}},
               SplitLines(d.visited_text))
    ELSE {}

\* CrawlState._load, the manifest file: one JSON object per line, keyed by
\* its file_url
RECURSIVE LoadLines(_, _)
LoadLines(lines, m) ==
    IF lines = <<>> THEN m
    ELSE Bound(LAMBDA m2 : LoadLines(Tail(lines), m2),
               ManifestSet(m, Head(lines).file_url, Head(lines)))

LoadManifest(d) == IF d.manifest_exists THEN LoadLines(d.manifest_lines, <<>>) ELSE <<>>

\* CrawlState.save
SaveVisitedText(vis) ==
    LET urls == Sorted(vis)
    IN  Concat([i \in 1..Len(urls) |-> urls[i] \o <<"\n">>])

SaveState(vis, man) ==
    [visited_exists |-> TRUE, visited_text |-> SaveVisitedText(vis),
     manifest_exists |-> TRUE,
     manifest_lines |-> [i \in 1..Len(man) |-> man[i].entry]]

(***************************************************************************)
(* The site that is crawled, and the configurations in use                 *)
(***************************************************************************)
OnA(rest) == <<"https", ":", "/", "/", "a.com">> \o rest

UrlRootBare == OnA(<<>>)

UrlRoot == OnA(<<"/">>)

UrlB == OnA(<<"/", "b">>)

UrlBTop == OnA(<<"/", "b", "#", "top">>)

UrlF == OnA(<<"/", "f", ".pdf">>)

UrlFq == OnA(<<"/", "f", ".pdf", "?", "v=1">>)

UrlCdnF == <<"https", ":", "/", "/", "cdn.net", "/", "f", ".pdf">>

UrlPriv == OnA(<<"/", "private", "/", "p">>)

UrlCws == OnA(<<"/", "c", " ">>)

UrlG == OnA(<<"/", "g", ".PDF">>)

\* the root page of the host sub.a.com
UrlSub == <<"https", ":", "/", "/", "sub", ".", "a.com", "/">>

\* the root page of the host nota.com
UrlNotA == <<"https", ":", "/", "/", "not", "a.com", "/">>

\* an absolute href whose path climbs out with "..": urljoin keeps it as it is
UrlUp == OnA(<<"/", "..", "/", "up", ".pdf">>)

\* a page no other page links to
UrlV == OnA(<<"/", "v">>)

\* an absolute href whose path climbs out of the output root into the state
\* directory
UrlState == OnA(<<"/", "..", "/", "state", "/", "visited_urls", ".txt">>)

UrlBad == <<"https", ":", "/", "/", "[", "bad">>

\* the href values of the page served at url, already joined with the base
SiteHrefs(url) ==
    CASE url = UrlRoot -> <<UrlBTop, UrlF, UrlB, UrlPriv>>
      [] url = UrlB -> <<UrlRootBare, UrlFq, UrlCdnF, UrlCws>>
      [] url = UrlPriv -> <<UrlF, UrlBad>>
      [] url = UrlCws -> <<UrlG, UrlUp>>
      [] url = UrlSub -> <<UrlNotA, UrlRootBare, UrlB>>
      [] url = UrlV -> <<UrlState, UrlF>>
      [] OTHER -> <<>>

\* "text/html" in the Content-Type of the response for url
SiteIsHtml(url) == url \in {UrlRoot, UrlB, UrlPriv, UrlCws, UrlSub, UrlV}

\* robots.txt of the site: Disallow: /private/
StartsWith(s, prefix) == Len(s) >= Len(prefix) /\ Take(s, Len(prefix)) = prefix

RobotsDisallows(url) == StartsWith(urlparse(url).path, <<"/", "private", "/">>)

\* the chunks resp.iter_content yields for a file URL (one may be empty)
SiteChunks(url) ==
    CASE url = UrlF -> <<<<"b1", "b2">>, <<>>, <<"b3">>>>
      [] url = UrlCdnF -> <<<<"x1">>>>
      [] OTHER -> <<<<"z1">>>>

\* the status codes a GET request for url may come back with
SiteGetCodes(url) ==
    CASE url = UrlCdnF -> {200, 304, 404}
      [] OTHER -> {200, 404}

\* the chunks of the response body: a 304 response has none
SiteBody(url, code) == IF code = 304 THEN <<>> ELSE SiteChunks(url)

HeadResponse(e, l) == [status_code |-> 200, etag |-> e, last_mod |-> l]

\* what a HEAD request for url may answer
SiteHeads(url) ==
    CASE url = UrlF -> {HeadResponse(<<"e1">>, <<"m1">>), HeadResponse(<<"e1">>, NoneV),
                        HeadResponse(NoneV, <<"m1">>)}
      [] url = UrlCdnF -> {HeadResponse(NoneV, NoneV)}
      [] OTHER -> {HeadResponse(EmptyStr, NoneV)}

NoHead == [status_code |-> 0, etag |-> NoneV, last_mod |-> NoneV]

AllowedDomain == <<"a.com">>

OutputDir == <<"out">>

StateDir == <<"state">>

CfgA == [start_url |-> UrlRootBare, allowed_domain |-> AllowedDomain,
         max_pages |-> 3, max_depth |-> 1, respect_robots_txt |-> TRUE,
         allowed_extensions |-> {<<".pdf">>}, follow_subdomains |-> FALSE,
         retries |-> 2, ignore_query_params |-> TRUE, output_dir |-> OutputDir]

CfgB == [CfgA EXCEPT !.start_url = UrlB, !.max_pages = 1, !.retries = 0]

CfgC == [CfgA EXCEPT !.start_url = UrlB, !.max_pages = 2, !.retries = 1,
                      !.respect_robots_txt = FALSE, !.ignore_query_params = FALSE]

CfgP == [CfgA EXCEPT !.start_url = UrlPriv]

\* the configurations discover is run with
Configs == {CfgA, CfgB, CfgC, CfgP}

\* subdomains are followed, from the root page of sub.a.com
CfgS == [CfgA EXCEPT !.start_url = UrlSub, !.follow_subdomains = TRUE,
                      !.max_depth = 2, !.respect_robots_txt = FALSE]

\* the same start with subdomains not followed
CfgT == [CfgS EXCEPT !.follow_subdomains = FALSE]

\* the target extension is configured in upper case
CfgX == [CfgB EXCEPT !.allowed_extensions = {<<".PDF">>}]

\* text files are targets too, from the page /v
CfgV == [CfgB EXCEPT !.start_url = UrlV, !.allowed_extensions = {<<".pdf">>, <<".txt">>}]

\* the configurations of the runs that reach the state directory
PersistConfigs == {CfgV, CfgB}

\* the configurations of the runs that only discover
CrawlConfigs == Configs \cup {CfgS, CfgT, CfgX}

\* the ones download is run with (it reads retries and output_dir only)
DownloadConfigs == {CfgA, CfgB}

\* phases (discover or download invocations) one behaviour runs
MaxRuns == 3

(***************************************************************************)
(* The state directory and the output directory share one file system       *)
(***************************************************************************)
\* the segments of a path: the text between its "/"
RECURSIVE Segments(_)
Segments(s) ==
    IF s = <<>> THEN <<>>
    ELSE <<Take(s, Find(s, {"/"}) - 1)>> \o Segments(Drop(s, Find(s, {"/"})))

\* the location open() reaches for a relative path: "." and empty segments
\* are dropped and ".." leaves the directory entered last
RECURSIVE Resolve(_, _)
Resolve(segs, at) ==
    IF segs = <<>> THEN at
    ELSE IF Head(segs) \in {<<>>, <<".">>} THEN Resolve(Tail(segs), at)
    ELSE IF Head(segs) = <<"..">>
         THEN Resolve(Tail(segs), IF at = <<>> \/ at[Len(at)] = <<"..">>
                                  THEN Append(at, <<"..">>)
                                  ELSE Take(at, Len(at) - 1))
    ELSE Resolve(Tail(segs), Append(at, Head(segs)))

\* self.state_dir / "visited_urls.txt"
VisitedFile == StateDir \o <<"/", "visited_urls", ".txt">>

IsVisitedFile(path) == Resolve(Segments(path), <<>>) = Resolve(Segments(VisitedFile), <<>>)

\* open(dest, "wb") and the writes of the chunks, seen from the state
\* directory: a dest that names the visited file replaces its text
WriteThrough(d, dest, bytes) ==
    IF IsVisitedFile(dest)
    THEN [d EXCEPT !.visited_exists = TRUE, !.visited_text = bytes]
    ELSE d

\* self.visited_file.open("w") and its writes, seen from the paths download
\* wrote to
SaveThrough(fs, d) ==
    [p \in DOMAIN fs |-> IF IsVisitedFile(p) THEN d.visited_text ELSE fs[p]]

(***************************************************************************)
(* State                                                                   *)
(***************************************************************************)
VARIABLES
    disk,           \* the state directory: visited_urls.txt, manifest.jsonl
    files,          \* the output directory: destination path -> bytes
    cfg,            \* the Config of the running phase
    phase,          \* "none", "discover" or "download"
    pc,             \* where the running phase stands
    visited,        \* CrawlState.visited
    manifest,       \* CrawlState.manifest
    rp,             \* "loaded" or "none" (rp is None)
    queue,          \* discover: the deque of (url, depth)
    pages_visited,  \* discover: the page counter
    norm,           \* discover: the URL being fetched
    depth,          \* discover: its depth
    attempt,        \* request_with_retries: the loop variable
    idx,            \* download: position in state.manifest.items()
    counts,         \* download: downloaded, skipped, failed
    head,           \* download: status and headers of the last HEAD response
    runs,           \* phases started so far; also the clock of utcnow()
    ev,             \* the last network or file event, for stating properties
    fetchLog,       \* discover: URLs request_with_retries was called with
    disk0,          \* the state directory as the running phase found it
    lastDone,       \* configuration and robots policy of the last completed discover
    rerun,          \* the running discover repeats the last completed one
    slept,          \* discover: time.sleep(cfg.rate_limit_sec) ran since the last fetch
    depthLog,       \* discover: the depth of each URL of fetchLog
    explored,       \* discover: the pages whose links were processed, with depth
    nz              \* normalize_url applied to one input, once and twice

vars == <<disk, files, cfg, phase, pc, visited, manifest, rp, queue, pages_visited,
          norm, depth, attempt, idx, counts, head, runs, ev, fetchLog, disk0,
          lastDone, rerun, slept, depthLog, explored, nz>>

\* an empty output directory
NoFiles == [p \in {} |-> <<>>]

NoEvent == [kind |-> "none", url |-> <<>>, n |-> 0]

Event(kind, url, n) == [kind |-> kind, url |-> url, n |-> n]

Stopped == {"idle", "done", "aborted"}

\* normalize_url has not been applied
NzIdle == [stage |-> "idle", url |-> <<>>, ignore_query |-> TRUE,
           once |-> <<>>, twice |-> <<>>]

CrawlInit ==
    /\ disk = NoDisk
    /\ files = NoFiles
    /\ cfg = CfgA
    /\ phase = "none"
    /\ pc = "idle"
    /\ visited = {}
    /\ manifest = <<>>
    /\ rp = "none"
    /\ queue = <<>>
    /\ pages_visited = 0
    /\ norm = <<>>
    /\ depth = 0
    /\ attempt = 0
    /\ idx = 0
    /\ counts = [downloaded |-> 0, skipped |-> 0, failed |-> 0]
    /\ head = NoHead
    /\ runs = 0
    /\ ev = NoEvent
    /\ fetchLog = <<>>
    /\ disk0 = NoDisk
    /\ lastDone = <<>>
    /\ rerun = FALSE
    /\ slept = FALSE
    /\ depthLog = <<>>
    /\ explored = <<>>

Init == CrawlInit /\ nz = NzIdle

(***************************************************************************)
(* crawler/utils.py: request_with_retries                                  *)
(***************************************************************************)
\* variant: gives up one attempt early
RetryExhaustedEarly(a, retries) == a + 1 >= retries

\* "if attempt == retries: raise"
RetryExhausted(a, retries) == a = retries

(***************************************************************************)
(* crawler/crawl.py: discover                                              *)
(***************************************************************************)
\* dict.update(u) on d
DictUpdate(d, u) ==
    [k \in (DOMAIN d) \cup (DOMAIN u) |-> IF k \in DOMAIN u THEN u[k] ELSE d[k]]

EmptyDict == [k \in {} |-> NoneV]

\* the dict discover passes to entry.update for a file link
DiscoveredFields(now, source_page, link_norm) ==
    [discovered_at |-> <<now>>, source_page |-> source_page, file_url |-> link_norm,
     file_path |-> NoneV, status |-> <<"discovered">>, http_status |-> <<>>,
     etag |-> NoneV, last_modified |-> NoneV, sha256 |-> NoneV, size_bytes |-> <<>>]

\* entry = state.manifest.get(link_norm, {}); entry.update({...});
\* state.manifest[link_norm] = entry
UpsertDiscovered(m, now, source_page, link_norm) ==
    LET old == IF ManifestHas(m, link_norm) THEN ManifestGet(m, link_norm) ELSE EmptyDict
    IN  ManifestSet(m, link_norm,
                    DictUpdate(old, DiscoveredFields(now, source_page, link_norm)))

\* any(link_norm.lower().endswith(ext) for ext in cfg.allowed_extensions)
IsFileLink(link_norm, exts) == \E ext \in exts : EndsWith(Lower(link_norm), ext)

\* extract_links (urljoin) or normalize_url raises on some link of the page
LinksRaise(links) == \E i \in 1..Len(links) : normalize_raises(links[i])

\* variant: a page link goes to the head of the queue
RECURSIVE ProcessLinksFront(_, _, _, _, _, _, _)
ProcessLinksFront(links, m, q, vis, c, page, now) ==
    IF links = <<>> THEN [manifest |-> m, queue |-> q]
    ELSE IF IsFileLink(normalize_url(Head(links), c.ignore_query_params),
                       c.allowed_extensions)
    THEN ProcessLinksFront(Tail(links),
                           UpsertDiscovered(m, now, page.url,
                               normalize_url(Head(links), c.ignore_query_params)),
                           q, vis, c, page, now)
    ELSE IF normalize_url(Head(links), c.ignore_query_params) \notin vis
    THEN ProcessLinksFront(Tail(links), m,
                           <<[url |-> normalize_url(Head(links), c.ignore_query_params),
                              depth |-> page.depth + 1]>> \o q,
                           vis, c, page, now)
    ELSE ProcessLinksFront(Tail(links), m, q, vis, c, page, now)

\* the for loop over the links of one page: the manifest and the queue after it
RECURSIVE ProcessLinks(_, _, _, _, _, _, _)
ProcessLinks(links, m, q, vis, c, page, now) ==
    IF links = <<>> THEN [manifest |-> m, queue |-> q]
    ELSE LET link_norm == normalize_url(Head(links), c.ignore_query_params)
         IN  IF IsFileLink(link_norm, c.allowed_extensions)
             THEN ProcessLinks(Tail(links), UpsertDiscovered(m, now, page.url, link_norm),
                               q, vis, c, page, now)
             ELSE IF link_norm \notin vis
             THEN ProcessLinks(Tail(links), m,
                               Append(q, [url |-> link_norm, depth |-> page.depth + 1]),
                               vis, c, page, now)
             ELSE ProcessLinks(Tail(links), m, q, vis, c, page, now)

\* rp.read() raised, or robots.txt is not to be respected: rp is None
RobotsPolicy(c, readOk) == IF c.respect_robots_txt /\ readOk THEN "loaded" ELSE "none"

\* CrawlState(cfg.state_dir), the robots policy and the queue, for a configuration of cs
BeginDiscover(cs) ==
    /\ pc \in Stopped
    /\ \E c \in cs, readOk \in BOOLEAN :
        /\ cfg' = c
        /\ rp' = RobotsPolicy(c, readOk)
        /\ queue' = <<[url |-> c.start_url, depth |-> 0]>>
        /\ rerun' = (lastDone = <<[cfg |-> c, rp |-> RobotsPolicy(c, readOk)]>>)
    /\ phase' = "discover"
    /\ pc' = "d_loop"
    /\ visited' = LoadVisited(disk)
    /\ manifest' = LoadManifest(disk)
    /\ pages_visited' = 0
    /\ norm' = <<>>
    /\ depth' = 0
    /\ attempt' = 0
    /\ idx' = 0
    /\ counts' = [downloaded |-> 0, skipped |-> 0, failed |-> 0]
    /\ head' = NoHead
    /\ ev' = NoEvent
    /\ fetchLog' = <<>>
    /\ disk0' = disk
    /\ slept' = FALSE
    /\ depthLog' = <<>>
    /\ explored' = <<>>
    /\ UNCHANGED <<disk, files, lastDone, nz>>

\* one more of the runs a behaviour counts
StartDiscoverWith(cs) ==
    /\ runs < MaxRuns
    /\ BeginDiscover(cs)
    /\ runs' = runs + 1

\* discover is run again with the configuration of the run before
ResumeDiscover ==
    /\ phase = "discover"
    /\ BeginDiscover({cfg})
    /\ UNCHANGED runs

StartDiscover == StartDiscoverWith(Configs)

StartCrawl == StartDiscoverWith(CrawlConfigs)

\* variant: the page cap is not tested
LoopQueueOnly == queue # <<>>

\* "while queue and pages_visited < cfg.max_pages"
LoopCondition == queue # <<>> /\ pages_visited < cfg.max_pages

\* variant: the visited test is left out
SkipDeepOnly(u, d) == d > cfg.max_depth

\* "norm in state.visited or depth > cfg.max_depth"
SkipVisitedOrDeep(u, d) == u \in visited \/ d > cfg.max_depth

\* variant: the robots policy is never consulted
RobotsBlocksNever(u) == FALSE

\* "rp and not rp.can_fetch(cfg.user_agent, norm)"
RobotsBlocks(u) == rp = "loaded" /\ RobotsDisallows(u)

\* one turn of the loop up to the call of request_with_retries
\* what the tests at the head of the loop body decide for the URL u at depth d
PopOutcome(u, d) ==
    IF SkipVisitedOrDeep(u, d) THEN "skip"
    ELSE IF ~is_within_domain(u, cfg.allowed_domain, cfg.follow_subdomains)
    THEN "out_of_domain"
    ELSE IF RobotsBlocks(u) THEN "robots"
    ELSE "fetch"

\* queue.popleft() and the tests, for the item popped, its normalized URL
\* and the outcome of the tests
PopItem(item, u, why) ==
    /\ queue' = Tail(queue)
    /\ ev' = Event(why, u, 0)
    /\ IF why = "fetch"
       THEN /\ pc' = "d_fetch"
            /\ norm' = u
            /\ depth' = item.depth
            /\ attempt' = 0
            /\ fetchLog' = Append(fetchLog, u)
            /\ depthLog' = Append(depthLog, item.depth)
            /\ slept' = FALSE
       ELSE UNCHANGED <<pc, norm, depth, attempt, fetchLog, depthLog, slept>>

PopUrl ==
    /\ pc = "d_loop"
    /\ LoopCondition
    /\ \E item \in {Head(queue)} :
        \E u \in {normalize_url(item.url, cfg.ignore_query_params)} :
            \E why \in {PopOutcome(u, item.depth)} : PopItem(item, u, why)
    /\ UNCHANGED <<disk, files, cfg, phase, visited, manifest, rp, pages_visited,
                   idx, counts, head, runs, disk0,
                   lastDone, rerun, explored, nz>>

\* variant: a failed fetch counts as a page
FetchRaisesCounts ==
    /\ pc = "d_fetch"
    /\ IF RetryExhausted(attempt, cfg.retries)
       THEN /\ visited' = visited \cup {norm}
            /\ pages_visited' = pages_visited + 1
            /\ pc' = "d_loop"
            /\ attempt' = 0
            /\ ev' = Event("fetch_failed", norm, attempt + 1)
            /\ norm' = <<>>
            /\ depth' = 0
       ELSE /\ attempt' = attempt + 1
            /\ ev' = Event("fetch_retry", norm, attempt + 1)
            /\ UNCHANGED <<visited, pc, norm, depth, pages_visited>>
    /\ UNCHANGED <<disk, files, cfg, phase, manifest, rp, queue,
                   idx, counts, head, runs, fetchLog, disk0,
                   lastDone, rerun, slept, depthLog, explored, nz>>

\* session.request raised requests.RequestException
FetchRaises ==
    /\ pc = "d_fetch"
    /\ IF RetryExhausted(attempt, cfg.retries)
       THEN \* the exception reaches discover's except clause
            /\ visited' = visited \cup {norm}
            /\ pc' = "d_loop"
            /\ attempt' = 0
            /\ ev' = Event("fetch_failed", norm, attempt + 1)
            /\ norm' = <<>>
            /\ depth' = 0
       ELSE /\ attempt' = attempt + 1
            /\ ev' = Event("fetch_retry", norm, attempt + 1)
            /\ UNCHANGED <<visited, pc, norm, depth>>
    /\ UNCHANGED <<disk, files, cfg, phase, manifest, rp, queue, pages_visited,
                   idx, counts, head, runs, fetchLog, disk0,
                   lastDone, rerun, slept, depthLog, explored, nz>>

\* session.request returned a response: the rest of the loop body
FetchResponds ==
    /\ pc = "d_fetch"
    /\ visited' = visited \cup {norm}
    /\ pages_visited' = pages_visited + 1
    /\ attempt' = 0
    /\ norm' = <<>>
    /\ depth' = 0
    /\ IF ~SiteIsHtml(norm)
       THEN /\ pc' = "d_loop"
            /\ ev' = Event("not_html", norm, attempt + 1)
            /\ UNCHANGED <<manifest, queue, slept, explored>>
       ELSE IF LinksRaise(SiteHrefs(norm))
       THEN \* ValueError outside the try: discover ends without state.save()
            /\ pc' = "aborted"
            /\ ev' = Event("link_error", norm, attempt + 1)
            /\ UNCHANGED <<manifest, queue, slept, explored>>
       ELSE LET r == ProcessLinks(SiteHrefs(norm), manifest, queue, visited', cfg,
                                  [url |-> norm, depth |-> depth], runs)
            IN  /\ manifest' = r.manifest
                /\ queue' = r.queue
                /\ pc' = "d_loop"
                /\ ev' = Event("page", norm, attempt + 1)
                /\ explored' = Append(explored, [url |-> norm, depth |-> depth])
                /\ slept' = TRUE
    /\ UNCHANGED <<disk, files, cfg, phase, rp, idx, counts, head, runs,
                   fetchLog, disk0,
                   lastDone, rerun, depthLog, nz>>

\* the loop ends: state.save() and return
FinishDiscover ==
    /\ pc = "d_loop"
    /\ ~LoopCondition
    /\ disk' = SaveState(visited, manifest)
    /\ files' = SaveThrough(files, SaveState(visited, manifest))
    /\ pc' = "done"
    /\ ev' = Event("saved", <<>>, 0)
    /\ lastDone' = <<[cfg |-> cfg, rp |-> rp]>>
    /\ UNCHANGED <<cfg, phase, visited, manifest, rp, queue, pages_visited, norm,
                   depth, attempt, idx, counts, head, runs, fetchLog, disk0, rerun,
                   slept, depthLog, explored, nz>>

(***************************************************************************)
(* crawler/download.py: download                                           *)
(***************************************************************************)
\* hashlib.sha256 over the bytes fed to it: one digest per byte string
Digest(bytes) == <<"sha256">> \o bytes

\* str(cfg.output_dir / file_url_to_path(url))
DestPath(c, url) == c.output_dir \o <<"/">> \o file_url_to_path(url)

\* variant: size_bytes counts chunks, not bytes
RECURSIVE StreamCountsChunks(_, _, _)
StreamCountsChunks(chunks, n, acc) ==
    IF n = 0 \/ chunks = <<>> THEN acc
    ELSE StreamCountsChunks(Tail(chunks), n - 1,
                            [written |-> acc.written \o Head(chunks),
                             hashed |-> acc.hashed \o Head(chunks),
                             size |-> acc.size + (IF Head(chunks) = <<>> THEN 0 ELSE 1)])

\* the streaming loop over the first n chunks: bytes written and their count
RECURSIVE Stream(_, _, _)
Stream(chunks, n, acc) ==
    IF n = 0 \/ chunks = <<>> THEN acc
    ELSE LET chunk == Head(chunks)
         IN  IF chunk = <<>>
             THEN Stream(Tail(chunks), n - 1, acc)
             ELSE Stream(Tail(chunks), n - 1,
                         [written |-> acc.written \o chunk,
                          hashed |-> acc.hashed \o chunk,
                          size |-> acc.size + Len(chunk)])

StreamStart == [written |-> <<>>, hashed |-> <<>>, size |-> 0]

WriteFile(fs, dest, bytes) ==
    [p \in (DOMAIN fs) \cup {dest} |-> IF p = dest THEN bytes ELSE fs[p]]

\* variant: both validators must match
UnchangedBoth(entry, h) ==
    /\ Truthy(h.etag) /\ entry.etag = h.etag
    /\ Truthy(h.last_mod) /\ entry.last_modified = h.last_mod

\* variant: the headers are compared without asking whether they are present
UnchangedLiteral(entry, h) ==
    entry.etag = h.etag \/ entry.last_modified = h.last_mod

\* the change test of download: a truthy header equal to the stored one
Unchanged(entry, h) ==
    \/ Truthy(h.etag) /\ entry.etag = h.etag
    \/ Truthy(h.last_mod) /\ entry.last_modified = h.last_mod

SkippedFields(h) ==
    [status |-> <<"skipped_unchanged">>, http_status |-> <<h.status_code>>,
     etag |-> h.etag, last_modified |-> h.last_mod]

DownloadedFields(dest, status_code, h, st) ==
    [file_path |-> dest, status |-> <<"downloaded">>, http_status |-> <<status_code>>,
     etag |-> h.etag, last_modified |-> h.last_mod,
     sha256 |-> Digest(st.hashed), size_bytes |-> <<st.size>>]

\* variant: the except clause records nothing in the entry
FailedFieldsNoStatus == EmptyDict

\* the dict the except clause of download passes to entry.update
FailedFields == [status |-> <<"failed">>]

\* resp.raise_for_status() raises HTTPError for the codes 400 to 599
RaisesForStatus(code) == code >= 400 /\ code < 600

\* entry.update(fields); state.manifest[url] = entry, for the entry at idx
UpdateCurrent(m, i, fields) ==
    ManifestSet(m, m[i].key, DictUpdate(m[i].entry, fields))

StartDownloadWith(cs) ==
    /\ pc \in Stopped
    /\ runs < MaxRuns
    /\ \E c \in cs : cfg' = c
    /\ phase' = "download"
    /\ pc' = "dl_head"
    /\ visited' = LoadVisited(disk)
    /\ manifest' = LoadManifest(disk)
    /\ rp' = "none"
    /\ queue' = <<>>
    /\ pages_visited' = 0
    /\ norm' = <<>>
    /\ depth' = 0
    /\ attempt' = 0
    /\ idx' = 1
    /\ counts' = [downloaded |-> 0, skipped |-> 0, failed |-> 0]
    /\ head' = NoHead
    /\ runs' = runs + 1
    /\ ev' = NoEvent
    /\ fetchLog' = <<>>
    /\ disk0' = disk
    /\ rerun' = FALSE
    /\ slept' = FALSE
    /\ depthLog' = <<>>
    /\ explored' = <<>>
    /\ UNCHANGED <<disk, files, lastDone, nz>>

StartDownload == StartDownloadWith(DownloadConfigs)

\* variant: the exception leaves the loop
FailCurrentAborts(kind) ==
    /\ pc' = "aborted"
    /\ ev' = Event(kind, manifest[idx].key, attempt + 1)
    /\ attempt' = 0
    /\ head' = NoHead
    /\ UNCHANGED <<manifest, counts, idx>>

\* the except clause of download, then the next entry
FailCurrent(kind) ==
    /\ manifest' = UpdateCurrent(manifest, idx, FailedFields)
    /\ counts' = [counts EXCEPT !.failed = @ + 1]
    /\ idx' = idx + 1
    /\ pc' = "dl_head"
    /\ ev' = Event(kind, manifest[idx].key, attempt + 1)
    /\ attempt' = 0
    /\ head' = NoHead

\* the HEAD request raised requests.RequestException
HeadRaises ==
    /\ pc = "dl_head"
    /\ idx <= Len(manifest)
    /\ IF RetryExhausted(attempt, cfg.retries)
       THEN FailCurrent("head_failed")
       ELSE /\ attempt' = attempt + 1
            /\ ev' = Event("head_retry", manifest[idx].key, attempt + 1)
            /\ UNCHANGED <<manifest, counts, idx, pc, head>>
    /\ UNCHANGED <<disk, files, cfg, phase, visited, rp, queue, pages_visited, norm,
                   depth, runs, fetchLog, disk0,
                   lastDone, rerun, slept, depthLog, explored, nz>>

\* the HEAD request returned: skip the entry, or go on to the GET request
HeadResponds ==
    /\ pc = "dl_head"
    /\ idx <= Len(manifest)
    /\ \E h \in SiteHeads(manifest[idx].key) :
        /\ head' = h
        /\ IF Unchanged(manifest[idx].entry, h)
           THEN /\ manifest' = UpdateCurrent(manifest, idx, SkippedFields(h))
                /\ counts' = [counts EXCEPT !.skipped = @ + 1]
                /\ idx' = idx + 1
                /\ pc' = "dl_head"
                /\ ev' = Event("skipped", manifest[idx].key, attempt + 1)
           ELSE /\ pc' = "dl_get"
                /\ ev' = Event("head", manifest[idx].key, attempt + 1)
                /\ UNCHANGED <<manifest, counts, idx>>
    /\ attempt' = 0
    /\ UNCHANGED <<disk, files, cfg, phase, visited, rp, queue, pages_visited, norm,
                   depth, runs, fetchLog, disk0,
                   lastDone, rerun, slept, depthLog, explored, nz>>

\* the GET request raised requests.RequestException
GetRaises ==
    /\ pc = "dl_get"
    /\ IF RetryExhausted(attempt, cfg.retries)
       THEN FailCurrent("get_failed")
       ELSE /\ attempt' = attempt + 1
            /\ ev' = Event("get_retry", manifest[idx].key, attempt + 1)
            /\ UNCHANGED <<manifest, counts, idx, pc, head>>
    /\ UNCHANGED <<disk, files, cfg, phase, visited, rp, queue, pages_visited, norm,
                   depth, runs, fetchLog, disk0,
                   lastDone, rerun, slept, depthLog, explored, nz>>

\* the GET request returned a response for which raise_for_status raises
GetHttpError ==
    /\ pc = "dl_get"
    /\ \E code \in SiteGetCodes(manifest[idx].key) : RaisesForStatus(code)
    /\ FailCurrent("http_error")
    /\ UNCHANGED <<disk, files, cfg, phase, visited, rp, queue, pages_visited, norm,
                   depth, runs, fetchLog, disk0,
                   lastDone, rerun, slept, depthLog, explored, nz>>

\* raise_for_status passed but mkdir or open raised: nothing is written
GetOpenFails ==
    /\ pc = "dl_get"
    /\ \E code \in SiteGetCodes(manifest[idx].key) : ~RaisesForStatus(code)
    /\ FailCurrent("open_error")
    /\ UNCHANGED <<disk, files, cfg, phase, visited, rp, queue, pages_visited, norm,
                   depth, runs, fetchLog, disk0,
                   lastDone, rerun, slept, depthLog, explored, nz>>

\* the body breaks off after n chunks: the file holds what was written
GetStreamBreaks ==
    /\ pc = "dl_get"
    /\ \E code \in SiteGetCodes(manifest[idx].key) :
        /\ ~RaisesForStatus(code)
        /\ LET url == manifest[idx].key
               chunks == SiteBody(url, code)
           IN  \E n \in 0..(Len(chunks) - 1) :
                   /\ files' = WriteFile(files, DestPath(cfg, url),
                                         Stream(chunks, n, StreamStart).written)
                   /\ disk' = WriteThrough(disk, DestPath(cfg, url),
                                           Stream(chunks, n, StreamStart).written)
    /\ FailCurrent("stream_error")
    /\ UNCHANGED <<cfg, phase, visited, rp, queue, pages_visited, norm,
                   depth, runs, fetchLog, disk0,
                   lastDone, rerun, slept, depthLog, explored, nz>>

\* raise_for_status passed and the whole body was written
GetCompletes ==
    /\ pc = "dl_get"
    /\ \E code \in SiteGetCodes(manifest[idx].key) :
        /\ ~RaisesForStatus(code)
        /\ LET url == manifest[idx].key
               chunks == SiteBody(url, code)
               st == Stream(chunks, Len(chunks), StreamStart)
               dest == DestPath(cfg, url)
           IN  /\ files' = WriteFile(files, dest, st.written)
               /\ disk' = WriteThrough(disk, dest, st.written)
               /\ manifest' = UpdateCurrent(manifest, idx,
                                            DownloadedFields(dest, code, head, st))
               /\ ev' = Event("downloaded", url, attempt + 1)
    /\ counts' = [counts EXCEPT !.downloaded = @ + 1]
    /\ idx' = idx + 1
    /\ pc' = "dl_head"
    /\ attempt' = 0
    /\ head' = NoHead
    /\ UNCHANGED <<cfg, phase, visited, rp, queue, pages_visited, norm,
                   depth, runs, fetchLog, disk0,
                   lastDone, rerun, slept, depthLog, explored, nz>>

\* every entry was handled: state.save() and return
FinishDownload ==
    /\ pc = "dl_head"
    /\ idx > Len(manifest)
    /\ disk' = SaveState(visited, manifest)
    /\ files' = SaveThrough(files, SaveState(visited, manifest))
    /\ pc' = "done"
    /\ ev' = Event("saved", <<>>, 0)
    /\ UNCHANGED <<cfg, phase, visited, manifest, rp, queue, pages_visited, norm,
                   depth, attempt, idx, counts, head, runs, fetchLog, disk0,
                   lastDone, rerun, slept, depthLog, explored, nz>>

Next ==
    \/ StartDiscover
    \/ PopUrl
    \/ FetchRaises
    \/ FetchResponds
    \/ FinishDiscover
    \/ StartDownload
    \/ HeadRaises
    \/ HeadResponds
    \/ GetRaises
    \/ GetHttpError
    \/ GetOpenFails
    \/ GetStreamBreaks
    \/ GetCompletes
    \/ FinishDownload

Spec == Init /\ [][Next]_vars

\* runs of discover alone, under every configuration
NextCrawl ==
    \/ StartCrawl
    \/ PopUrl
    \/ FetchRaises
    \/ FetchResponds
    \/ FinishDiscover

SpecCrawl == Init /\ [][NextCrawl]_vars

\* runs of both phases over a site that links into the state directory
StartPersist == StartDiscoverWith(PersistConfigs)

NextPersist ==
    \/ StartPersist
    \/ PopUrl
    \/ FetchRaises
    \/ FetchResponds
    \/ FinishDiscover
    \/ StartDownload
    \/ HeadRaises
    \/ HeadResponds
    \/ GetRaises
    \/ GetHttpError
    \/ GetOpenFails
    \/ GetStreamBreaks
    \/ GetCompletes
    \/ FinishDownload

SpecPersist == Init /\ [][NextPersist]_vars

\* runs of both phases that all use the configuration of the first run
FixedConfigs == {CfgA, CfgB, CfgC}

StartDiscoverFixed == StartDiscoverWith(IF runs = 0 THEN FixedConfigs ELSE {cfg})

StartDownloadFixed == StartDownloadWith({cfg})

NextFixed ==
    \/ StartDiscoverFixed
    \/ PopUrl
    \/ FetchRaises
    \/ FetchResponds
    \/ FinishDiscover
    \/ StartDownloadFixed
    \/ HeadRaises
    \/ HeadResponds
    \/ GetRaises
    \/ GetHttpError
    \/ GetOpenFails
    \/ GetStreamBreaks
    \/ GetCompletes
    \/ FinishDownload

SpecFixed == Init /\ [][NextFixed]_vars

\* discover run once and then again and again with the same configuration;
\* the loop goes on to its next step, a request comes back or raises (after
\* timeout_sec at the latest), and the command is issued again after it has
\* ended
LiveConfigs == {CfgA, CfgB, CfgP}

StartLive == runs = 0 /\ StartDiscoverWith(LiveConfigs)

NextLive ==
    \/ StartLive
    \/ ResumeDiscover
    \/ PopUrl
    \/ FetchRaises
    \/ FetchResponds
    \/ FinishDiscover

Fairness ==
    /\ WF_vars(PopUrl)
    /\ WF_vars(FetchRaises \/ FetchResponds)
    /\ WF_vars(FinishDiscover)
    /\ WF_vars(ResumeDiscover)

SpecLive == Init /\ [][NextLive]_vars /\ Fairness

(***************************************************************************)
(* crawler/utils.py: normalize_url applied to absolute URLs                *)
(***************************************************************************)
MaxPathLen == 3

\* sequences over S of length n
RECURSIVE SeqsOfLen(_, _)
SeqsOfLen(S, n) ==
    IF n = 0 THEN {<<>>}
    ELSE {Append(t, x) : t \in SeqsOfLen(S, n - 1), x \in S}

\* the paths of the inputs: empty, or "/" followed by "/" and "x" in any order
NzPaths ==
    {<<>>} \cup UNION {{<<"/">> \o t : t \in SeqsOfLen({"/", "x"}, n)} :
                        n \in 0..(MaxPathLen - 1)}

\* scheme "://" authority path [ "?" query ] [ "#" fragment ], as RFC 3986
\* writes a URI with an authority, which may be empty
NzInputs ==
    {[stage |-> "input", ignore_query |-> q, once |-> <<>>, twice |-> <<>>,
      url |-> <<sc, ":", "/", "/">> \o au \o pa \o qu \o fr] :
        sc \in Schemes, au \in {<<>>, <<"a.com">>}, pa \in NzPaths,
        qu \in {<<>>, <<"?", "v=1">>}, fr \in {<<>>, <<"#", "top">>},
        q \in BOOLEAN}

crawlVars == <<disk, files, cfg, phase, pc, visited, manifest, rp, queue,
               pages_visited, norm, depth, attempt, idx, counts, head, runs, ev,
               fetchLog, disk0, lastDone, rerun, slept, depthLog, explored>>

InitNormalize == CrawlInit /\ nz \in NzInputs

NormalizeOnce ==
    /\ nz.stage = "input"
    /\ nz' = [nz EXCEPT !.stage = "once",
                         !.once = normalize_url(nz.url, nz.ignore_query)]
    /\ UNCHANGED crawlVars

NormalizeTwice ==
    /\ nz.stage = "once"
    /\ nz' = [nz EXCEPT !.stage = "twice",
                         !.twice = normalize_url(nz.once, nz.ignore_query)]
    /\ UNCHANGED crawlVars

NextNormalize == NormalizeOnce \/ NormalizeTwice

SpecNormalize == InitNormalize /\ [][NextNormalize]_vars

(***************************************************************************)
(* Properties                                                              *)
(***************************************************************************)
DownloadFieldNames ==
    {"file_path", "http_status", "etag", "last_modified", "sha256", "size_bytes"}

\* the entries of m, by key
EntryOf(m, k) == m[ManifestIndex(m, k)].entry

FieldsKept(old, new, names) == \A f \in names : new[f] = old[f]

\* C1: when discover processes a page, every manifest entry that existed
\* before keeps the values of its download fields (file_path, http_status,
\* etag, last_modified, sha256, size_bytes); none is replaced by a blank.
C1_MergeKeepsDownloadFields ==
    [][(phase = "discover" /\ pc = "d_fetch") =>
         \A i \in 1..Len(manifest) :
             /\ ManifestHas(manifest', manifest[i].key)
             /\ FieldsKept(manifest[i].entry, EntryOf(manifest', manifest[i].key),
                           DownloadFieldNames)]_vars

\* the URLs of a sequence
Range(seq) == {seq[i] : i \in 1..Len(seq)}

NoDuplicates(seq) == \A i, j \in 1..Len(seq) : seq[i] = seq[j] => i = j

\* C2: within one discover run no normalized URL is fetched twice, and no
\* fetch is issued for a URL that is in the visited set, whether it came
\* from the state directory or was added during the run.
C2_NoRevisit ==
    phase = "discover" =>
        /\ NoDuplicates(fetchLog)
        /\ Range(fetchLog) \cap LoadVisited(disk0) = {}
        /\ (pc = "d_fetch" => norm \notin visited)

\* a URL fetched earlier in the run was dequeued again and discarded
C2_Witness ==
    /\ phase = "discover"
    /\ ev.kind = "skip"
    /\ ev.url \in Range(fetchLog)
    /\ ev.url \in visited

\* the headers of a HEAD response match the stored entry as the spec words it
LiteralMatch(entry, h) == entry.etag = h.etag \/ entry.last_modified = h.last_mod

\* a returned validator is present, not empty, and equal to the stored one
PresentMatch(entry, h) ==
    \/ (h.etag # NoneV /\ h.etag # EmptyStr /\ entry.etag = h.etag)
    \/ (h.last_mod # NoneV /\ h.last_mod # EmptyStr /\ entry.last_modified = h.last_mod)

\* the step marks the current entry skipped_unchanged from the HEAD response,
\* keeps its file fields and the files, and goes to the next entry without GET
SkipOutcome(h) ==
    LET old == manifest[idx].entry
        new == manifest'[idx].entry
    IN  /\ new.status = <<"skipped_unchanged">>
        /\ new.http_status = <<h.status_code>>
        /\ new.etag = h.etag
        /\ new.last_modified = h.last_mod
        /\ FieldsKept(old, new, {"file_path", "sha256", "size_bytes"})
        /\ files' = files
        /\ pc' = "dl_head"
        /\ idx' = idx + 1

HeadAnswered == pc = "dl_head" /\ ev'.kind \in {"skipped", "head"}

\* C3 as stated: an entry whose HEAD response carries an ETag equal to the
\* stored etag, or a Last-Modified equal to the stored last_modified, is
\* marked skipped_unchanged with no GET; any other entry gets a GET.
C3_SkipOnEqualValidator ==
    [][HeadAnswered =>
         IF LiteralMatch(manifest[idx].entry, head')
         THEN SkipOutcome(head')
         ELSE pc' = "dl_get" /\ manifest' = manifest]_vars

\* C3 amended: the same, for a returned validator that is present and not
\* empty; an absent or empty header never matches.
C3_SkipOnPresentValidator ==
    [][HeadAnswered =>
         IF PresentMatch(manifest[idx].entry, head')
         THEN SkipOutcome(head')
         ELSE pc' = "dl_get" /\ manifest' = manifest]_vars

\* an entry was skipped on its Last-Modified alone, its ETag being absent
C3_Witness ==
    /\ phase = "download"
    /\ ev.kind = "skipped"
    /\ head.etag = NoneV
    /\ head.last_mod = <<"m1">>
    /\ EntryOf(manifest, ev.url).status = <<"skipped_unchanged">>
    /\ EntryOf(manifest, ev.url).sha256 # NoneV

FailKinds == {"head_failed", "get_failed", "http_error", "open_error", "stream_error"}

OthersKept(m1, m2, i) ==
    /\ Len(m2) = Len(m1)
    /\ \A j \in 1..Len(m1) : j # i => m2[j] = m1[j]

\* C4: in download, a failure on one entry sets that entry's status to failed,
\* adds one to the failed count, leaves the other entries alone and moves to
\* the next entry; the run never stops early, and it ends by saving a manifest
\* in which every entry was handled.
C4_FailureIsolated ==
    [][phase = "download" =>
         /\ pc' # "aborted"
         /\ (ev'.kind \in FailKinds /\ pc \in {"dl_head", "dl_get"} =>
                /\ manifest'[idx].entry.status = <<"failed">>
                /\ OthersKept(manifest, manifest', idx)
                /\ counts' = [counts EXCEPT !.failed = @ + 1]
                /\ idx' = idx + 1
                /\ pc' = "dl_head")
         /\ (pc # "done" /\ pc' = "done" =>
                /\ idx > Len(manifest)
                /\ counts.downloaded + counts.skipped + counts.failed = Len(manifest)
                /\ disk' = SaveState(visited, manifest))]_vars

\* a run that failed on its first entry went on to download the second
C4_Witness ==
    /\ phase = "download"
    /\ pc = "done"
    /\ Len(manifest) >= 2
    /\ manifest[1].entry.status = <<"failed">>
    /\ manifest[2].entry.status = <<"downloaded">>
    /\ counts.failed = 1

\* C5: discover never stops because of one URL: it ends only when the queue
\* is empty or the page cap is reached, and then saves the state.
C5_DiscoverNeverAborts == phase = "discover" => pc # "aborted"


\* the file at the entry's file_path holds the bytes its sha256 and size_bytes describe
FileMatches(e) ==
    /\ e.file_path \in DOMAIN files
    /\ e.sha256 = Digest(files[e.file_path])
    /\ e.size_bytes = <<Len(files[e.file_path])>>

IsDownloaded(e) == e.status = <<"downloaded">>

\* no other manifest entry has the destination file of entry i
SoleWriter(i) ==
    \A j \in 1..Len(manifest) :
        j # i => DestPath(cfg, manifest[j].key) # manifest[i].entry.file_path

C7_SaveLoadRoundTrip ==
    phase \in {"discover", "download"} =>
        /\ LoadVisited(SaveState(visited, manifest)) = visited
        /\ LoadManifest(SaveState(visited, manifest)) = manifest

RaisedKinds == {"fetch_failed", "head_failed", "get_failed"}

RetryKinds == {"fetch_retry", "head_retry", "get_retry"}

ReturnedKinds == {"page", "not_html", "link_error", "skipped", "head", "downloaded",
                  "http_error", "open_error", "stream_error"}

Occurrences(seq, x) == Cardinality({i \in 1..Len(seq) : seq[i] = x})

\* C9: request_with_retries makes at most retries + 1 attempts, stops at the
\* first attempt that returns, and lets the failure through only when
\* retries + 1 attempts have failed; a page whose fetch returned is in visited
\* and was requested once.
C9_RetryContract ==
    /\ (pc \in {"d_fetch", "dl_head", "dl_get"} => attempt <= cfg.retries)
    /\ (ev.kind \in RaisedKinds => ev.n = cfg.retries + 1 /\ attempt = 0)
    /\ (ev.kind \in RetryKinds => ev.n <= cfg.retries /\ attempt = ev.n)
    /\ (ev.kind \in ReturnedKinds => ev.n <= cfg.retries + 1 /\ attempt = 0)
    /\ (ev.kind \in {"page", "not_html", "link_error"} =>
           /\ pc # "d_fetch"
           /\ ev.url \in visited
           /\ Occurrences(fetchLog, ev.url) = 1)

\* with retries = 2 the third attempt returned a page
C9_Witness ==
    /\ phase = "discover"
    /\ cfg.retries = 2
    /\ ev.kind = "page"
    /\ ev.n = 3
    /\ ev.url \in visited
    /\ Occurrences(fetchLog, ev.url) = 1

\* C10: a discover run that repeats the last completed discover run (same
\* configuration, same robots answer, same site) leaves the persisted visited
\* set and the persisted manifest as they were before it, download metadata
\* written in between included.
C10_DiscoverIdempotent ==
    (phase = "discover" /\ pc = "done" /\ rerun) => disk = disk0

\* C14: normalize_url is idempotent on every well-formed URL, for each value
\* of ignore_query; its result has no fragment, has no query when ignore_query
\* is true, and has path "/" when the path of the input is empty.
C14_NormalizeIdempotent ==
    nz.stage = "twice" =>
        /\ nz.twice = nz.once
        /\ urlparse(nz.once).fragment = <<>>
        /\ (nz.ignore_query => urlparse(nz.once).query = <<>>)
        /\ (urlparse(nz.url).path = <<>> => urlparse(nz.once).path = <<"/">>)

\* following the segments from a directory at the given level below the root
\* never climbs above the root
RECURSIVE StaysBelow(_, _)
StaysBelow(segs, level) ==
    IF segs = <<>> THEN TRUE
    ELSE IF Head(segs) = <<"..">> THEN level > 0 /\ StaysBelow(Tail(segs), level - 1)
    ELSE IF Head(segs) \in {<<>>, <<".">>} THEN StaysBelow(Tail(segs), level)
    ELSE StaysBelow(Tail(segs), level + 1)

\* the path names a location inside the output root
InsideRoot(path, root) ==
    /\ StartsWith(path, root \o <<"/">>)
    /\ StaysBelow(Segments(Drop(path, Len(root) + 1)), 0)

\* C11: every file download creates or overwrites lies inside the output
\* root, and the file_path of a downloaded entry is the location written,
\* the output root joined with the path component of the entry's URL.
C11_DownloadContained ==
    phase = "download" =>
        /\ \A p \in DOMAIN files : InsideRoot(p, cfg.output_dir)
        /\ \A i \in 1..Len(manifest) :
               (i < idx /\ IsDownloaded(manifest[i].entry)) =>
                   /\ manifest[i].entry.file_path = DestPath(cfg, manifest[i].key)
                   /\ manifest[i].entry.file_path \in DOMAIN files
                   /\ InsideRoot(manifest[i].entry.file_path, cfg.output_dir)

RespondedKinds == {"page", "not_html", "link_error"}

\* C12: in discover the page counter never exceeds max_pages, it counts
\* exactly the page fetches of this run that returned a response, and no
\* fetch is issued for a queue item deeper than max_depth.
C12_TraversalBounds ==
    [][phase' = "discover" =>
         /\ pages_visited' <= cfg'.max_pages
         /\ (pc' = "d_fetch" => depth' <= cfg'.max_depth)
         /\ pages_visited' =
                IF pc \in Stopped THEN 0
                ELSE IF pc = "d_fetch" /\ ev'.kind \in RespondedKinds
                THEN pages_visited + 1
                ELSE pages_visited]_vars

\* the page cap ended a run whose queue was not empty
C12_Witness ==
    /\ phase = "discover"
    /\ pc = "done"
    /\ cfg.max_pages = 3
    /\ pages_visited = cfg.max_pages
    /\ queue # <<>>

\* host is allowed itself, or a subdomain of it when subdomains are followed
IsSubdomain(host, domain) == Len(host) > Len(domain) + 1 /\ EndsWith(host, <<".">> \o domain)

InScope(host, c) ==
    \/ host = c.allowed_domain
    \/ (c.follow_subdomains /\ IsSubdomain(host, c.allowed_domain))

\* C13: discover fetches a page only from the allowed domain or, when
\* subdomains are followed, from a subdomain of it; a URL of the allowed
\* domain itself is never discarded as out of scope.
C13_DomainBoundary ==
    phase = "discover" =>
        /\ \A u \in Range(fetchLog) : InScope(hostname(u), cfg)
        /\ (ev.kind = "out_of_domain" => hostname(ev.url) # cfg.allowed_domain)

\* C17: between two successive page fetches of discover there is a rate-limit
\* sleep, and the sleep follows every popped URL for which a network call was
\* made, a failed fetch and a response that is not HTML included.
C17_SleepAfterEveryFetch ==
    [][phase = "discover" =>
         /\ (pc = "d_loop" /\ pc' = "d_fetch" /\ fetchLog # <<>> => slept)
         /\ (pc = "d_fetch" /\ pc' = "d_loop" => slept')]_vars

NoLinksExtracted == manifest' = manifest /\ queue' = queue /\ explored' = explored

\* C18: a fetch that fails after its retries adds the URL to visited, leaves
\* the page counter alone and extracts no links; a fetch that returns adds
\* the URL to visited, adds one to the page counter, and extracts links only
\* from an HTML response; no URL in visited is fetched afterwards.
C18_FetchClassification ==
    [][(phase = "discover" /\ pc = "d_fetch") =>
         /\ (ev'.kind = "fetch_failed" =>
                /\ visited' = visited \cup {norm}
                /\ pages_visited' = pages_visited
                /\ NoLinksExtracted)
         /\ (ev'.kind \in RespondedKinds =>
                /\ visited' = visited \cup {norm}
                /\ pages_visited' = pages_visited + 1
                /\ (~SiteIsHtml(norm) => NoLinksExtracted))
         /\ (ev'.kind = "fetch_retry" =>
                visited' = visited /\ pages_visited' = pages_visited /\ NoLinksExtracted)
         /\ (pc' = "d_fetch" => norm' \notin visited')]_vars

\* a fetch failed for good after a page had been counted, with URLs left to fetch
C18_Witness ==
    /\ phase = "discover"
    /\ ev.kind = "fetch_failed"
    /\ ev.url \in visited
    /\ ev.url \notin LoadVisited(disk0)
    /\ pages_visited = 1
    /\ queue # <<>>

\* the normalized links of the page at url, as discover sees them
PageLinks(url) ==
    {normalize_url(SiteHrefs(url)[i], cfg.ignore_query_params) :
        i \in 1..Len(SiteHrefs(url))}

\* the normalized URL ends with a configured extension, letter case ignored
\* on both sides
IsTarget(link_norm, exts) == \E ext \in exts : EndsWith(Lower(link_norm), Lower(ext))

\* the items a step appended to the queue
Appended == SubSeq(queue', Len(queue) + 1, Len(queue'))

\* C19: of the links of a fetched HTML page, each one whose normalized URL
\* ends with a configured extension (case ignored for link and extension) is
\* in the manifest with status discovered and is not queued; each other one
\* is appended to the queue at depth + 1 exactly when it is not in visited.
C19_LinkClassification ==
    [][(phase = "discover" /\ pc = "d_fetch" /\ ev'.kind = "page") =>
         LET targets == {l \in PageLinks(norm) : IsTarget(l, cfg.allowed_extensions)}
             pages == {i \in 1..Len(SiteHrefs(norm)) :
                          LET l == normalize_url(SiteHrefs(norm)[i],
                                                 cfg.ignore_query_params)
                          IN  l \notin targets /\ l \notin visited'}
         IN  /\ \A l \in targets :
                    /\ ManifestHas(manifest', l)
                    /\ EntryOf(manifest', l).status = <<"discovered">>
                    /\ \A i \in 1..Len(Appended) : Appended[i].url # l
             /\ SubSeq(queue', 1, Len(queue)) = queue
             /\ Len(Appended) = Cardinality(pages)
             /\ Range(Appended) =
                    {[url |-> normalize_url(SiteHrefs(norm)[i], cfg.ignore_query_params),
                      depth |-> depth + 1] : i \in pages}]_vars

\* the URLs one link away from a URL of S, through the pages explored so far
LinkedFrom(S) ==
    UNION {PageLinks(explored[i].url) :
               i \in {j \in 1..Len(explored) : explored[j].url \in S}}

\* the link distance of u from the URLs of S, which are n links from the
\* start URL; -1 when u is not reached
RECURSIVE DistanceFrom(_, _, _)
DistanceFrom(S, u, n) ==
    IF u \in S THEN n
    ELSE IF n > Len(explored) THEN -1
    ELSE DistanceFrom(S \cup LinkedFrom(S), u, n + 1)

\* the link distance of u from the start URL
Distance(u) ==
    DistanceFrom({normalize_url(cfg.start_url, cfg.ignore_query_params)}, u, 0)

NonDecreasing(ds) == \A i, j \in 1..Len(ds) : i < j => ds[i] <= ds[j]

\* C20: the depths in the queue never decrease from head to tail and differ
\* by at most one; pages are fetched in order of depth, each at its link
\* distance from the start URL through the pages explored in the run.
C20_BreadthFirst ==
    phase = "discover" =>
        /\ NonDecreasing([i \in 1..Len(queue) |-> queue[i].depth])
        /\ (queue # <<>> => queue[Len(queue)].depth - queue[1].depth <= 1)
        /\ NonDecreasing(depthLog)
        /\ \A k \in 1..Len(fetchLog) : depthLog[k] = Distance(fetchLog[k])

\* a page was fetched at depth 1 although a page of depth 1 links to it too
C20_Witness ==
    /\ phase = "discover"
    /\ \E k \in 1..Len(fetchLog), i \in 1..Len(explored) :
           /\ depthLog[k] = 1
           /\ explored[i].depth = 1
           /\ fetchLog[k] \in PageLinks(explored[i].url)
           /\ fetchLog[k] # explored[i].url

FinalStatuses == {<<"downloaded">>, <<"skipped_unchanged">>, <<"failed">>}

\* how many of the first n entries of m carry the status st
WithStatus(m, n, st) == Cardinality({i \in 1..n : m[i].entry.status = st})

\* the entries before position i were handled and are counted, the others are
\* as they were loaded
Lifecycle(m, m0, i, c) ==
    /\ Len(m) = Len(m0)
    /\ i \in 1..(Len(m) + 1)
    /\ \A j \in 1..Len(m) : m[j].key = m0[j].key
    /\ \A j \in 1..(i - 1) : m[j].entry.status \in FinalStatuses
    /\ \A j \in i..Len(m) : m[j] = m0[j]
    /\ c.downloaded = WithStatus(m, i - 1, <<"downloaded">>)
    /\ c.skipped = WithStatus(m, i - 1, <<"skipped_unchanged">>)
    /\ c.failed = WithStatus(m, i - 1, <<"failed">>)

\* C15: in one download run the entries loaded from the manifest are handled
\* one after the other, each exactly once: an entry not yet handled is as it
\* was loaded, a handled entry has status downloaded, skipped_unchanged or
\* failed and is not touched again, each count is the number of handled
\* entries with that status, and the run ends with every entry handled, so
\* the three counts add up to the number of entries.
C15_StatusLifecycle ==
    [][phase' = "download" =>
         /\ Lifecycle(manifest', LoadManifest(disk0'), idx', counts')
         /\ (phase = "download" /\ pc \notin Stopped =>
                /\ idx' \in {idx, idx + 1}
                /\ \A j \in 1..(idx - 1) : manifest'[j] = manifest[j]
                /\ (idx' = idx => manifest' = manifest /\ counts' = counts))
         /\ (pc' = "done" =>
                /\ idx' = Len(manifest') + 1
                /\ counts'.downloaded + counts'.skipped + counts'.failed = Len(manifest')
                /\ \A j \in 1..Len(manifest') : manifest'[j].entry.status \in FinalStatuses)]_vars

\* a finished run over two entries: one skipped as unchanged, one failed
C15_Witness ==
    /\ phase = "download"
    /\ pc = "done"
    /\ Len(manifest) = 2
    /\ counts.skipped = 1
    /\ counts.failed = 1
    /\ {manifest[1].entry.status, manifest[2].entry.status}
           = {<<"skipped_unchanged">>, <<"failed">>}

\* the main loop of the phase has nothing left to do
LoopEnded ==
    IF phase = "discover" THEN pc = "d_loop" /\ ~LoopCondition
    ELSE pc = "dl_head" /\ idx > Len(manifest)

\* C16: in discover and in download the visited file and the manifest file
\* stay as they were loaded until the phase saves; the only step that changes
\* them is the save, taken once, when the main loop has ended, and a phase
\* that stopped before its save leaves both files as they were loaded.
C16_SaveOnce ==
    [][phase' \in {"discover", "download"} =>
         /\ (pc' # "done" => disk' = disk0')
         /\ (disk' # disk => pc # "done" /\ pc' = "done")
         /\ (pc # "done" /\ pc' = "done" =>
                /\ LoopEnded
                /\ disk' = SaveState(visited, manifest))]_vars

\* the events of download that follow a request for ev.url
RequestKinds == FailKinds \cup {"head_retry", "get_retry", "skipped", "head", "downloaded"}

\* C26: every key discover puts in the manifest passes the domain test that
\* pages pass, and every request of download goes to a host that passes it.
C26_ManifestScope ==
    /\ (phase = "discover" =>
           \A i \in 1..Len(manifest) :
               is_within_domain(manifest[i].key, cfg.allowed_domain, cfg.follow_subdomains))
    /\ (phase = "download" /\ ev.kind \in RequestKinds =>
           is_within_domain(ev.url, cfg.allowed_domain, cfg.follow_subdomains))

ContentFieldNames == {"file_path", "sha256", "size_bytes"}

Is2xx(code) == code >= 200 /\ code < 300

\* C22: in download a GET response outside 200..299 makes the entry failed,
\* leaves the files as they are and keeps the entry's file_path, sha256 and
\* size_bytes; so an entry is recorded as downloaded, and its file written,
\* only from a 2xx response.
C22_NonSuccessFails ==
    [][phase = "download" /\ pc = "dl_get" =>
         /\ (ev'.kind = "http_error" =>
                /\ manifest'[idx].entry.status = <<"failed">>
                /\ files' = files
                /\ FieldsKept(manifest[idx].entry, manifest'[idx].entry, ContentFieldNames))
         /\ (ev'.kind = "downloaded" =>
                Is2xx(manifest'[idx].entry.http_status[1]))]_vars

HasValidator(e) == e.etag # NoneV \/ e.last_modified # NoneV

HasContent(e) == e.file_path # NoneV /\ e.sha256 # NoneV

\* C24: from an empty state directory on, an entry that stores an etag or a
\* last_modified also stores a file_path and a sha256, which only a completed
\* download sets; an entry is skipped as unchanged only when it stores a
\* validator and with it the result of an earlier download, so an entry that
\* stores none is never skipped, whatever headers the server sends.
C24_SkipNeedsDownload ==
    [][/\ \A i \in 1..Len(manifest') :
             HasValidator(manifest'[i].entry) => HasContent(manifest'[i].entry)
       /\ (phase = "download" /\ pc = "dl_head" /\ ev'.kind = "skipped" =>
              /\ HasValidator(manifest[idx].entry)
              /\ HasContent(manifest[idx].entry)
              /\ manifest[idx].entry.status \in {<<"downloaded">>, <<"skipped_unchanged">>,
                                                 <<"failed">>})]_vars

\* the first entry was skipped as unchanged; the second stores no validator,
\* the server sent neither header for it, and download goes on to the GET
C24_Witness ==
    /\ phase = "download"
    /\ pc = "dl_get"
    /\ idx = 2
    /\ manifest[1].entry.status = <<"skipped_unchanged">>
    /\ ~HasValidator(manifest[2].entry)
    /\ head.etag = NoneV
    /\ head.last_mod = NoneV

\* normalize leaves the URL as it is
IsCanonical(u, c) == ~normalize_raises(u) /\ normalize_url(u, c.ignore_query_params) = u

\* C23: with one configuration for every run and an empty state directory at
\* the start, every element of visited and every manifest key is a fixed
\* point of normalize, every manifest entry's file_url is its key, and
\* visited only grows: no step of a phase removes a URL, download leaves the
\* set as it is, and the run after a finished one loads at least the URLs
\* the finished run had.
C23_CanonicalKeys ==
    [][/\ \A u \in visited' : IsCanonical(u, cfg')
       /\ \A i \in 1..Len(manifest') :
             /\ IsCanonical(manifest'[i].key, cfg')
             /\ manifest'[i].entry.file_url = manifest'[i].key
       /\ (pc \notin Stopped \/ pc = "done" => visited \subseteq visited')
       /\ (phase = "download" /\ pc \notin Stopped => visited' = visited)]_vars

\* C21: a discover run that has started ends its loop and reaches the final
\* save, whatever the site answers.
C21_DiscoverTerminates ==
    (phase = "discover" /\ pc \notin Stopped) ~> (phase = "discover" /\ pc = "done")

\* u is in the domain scope of c and the site's robots.txt allows it
Eligible(u, c) ==
    /\ is_within_domain(u, c.allowed_domain, c.follow_subdomains)
    /\ ~(c.respect_robots_txt /\ RobotsDisallows(u))

\* the page links of the page at u: its hrefs, normalized, that are not file links
LinkedPages(u, c) ==
    {l \in {normalize_url(SiteHrefs(u)[i], c.ignore_query_params) :
               i \in {j \in 1..Len(SiteHrefs(u)) : ~normalize_raises(SiteHrefs(u)[j])}} :
        ~IsFileLink(l, c.allowed_extensions)}

\* the eligible pages within max_depth links of the pages of level, which are
\* d links from the start
RECURSIVE ReachablePages(_, _, _, _)
ReachablePages(level, seen, d, c) ==
    IF d >= c.max_depth \/ level = {} THEN seen
    ELSE ReachablePages(
             {l \in UNION {LinkedPages(u, c) : u \in {v \in level : SiteIsHtml(v)}} :
                 Eligible(l, c) /\ l \notin seen},
             seen \cup {l \in UNION {LinkedPages(u, c) : u \in {v \in level : SiteIsHtml(v)}} :
                 Eligible(l, c)},
             d + 1, c)

TargetPages(c) ==
    IF Eligible(normalize_url(c.start_url, c.ignore_query_params), c)
    THEN ReachablePages({normalize_url(c.start_url, c.ignore_query_params)},
                        {normalize_url(c.start_url, c.ignore_query_params)}, 0, c)
    ELSE {}

\* the run ended at the page cap with a page in the queue it would have fetched
CappedWithFrontier ==
    /\ phase = "discover"
    /\ pc = "done"
    /\ pages_visited >= cfg.max_pages
    /\ \E i \in 1..Len(queue) :
           PopOutcome(normalize_url(queue[i].url, cfg.ignore_query_params),
                      queue[i].depth) = "fetch"

\* C25: after a discover run that stopped at the page cap with pages left in
\* its queue, running discover again and again on the same state directory
\* leads to a state in which every page of the allowed domain that robots.txt
\* allows and that is within max_depth links of the start URL is in visited.
C25_Resumption == CappedWithFrontier ~> (TargetPages(cfg) \subseteq visited)

====
